---- MODULE Spec2Model ----
(***************************************************************************)
(* Model of the cross-chain event listener of src/script.py: the poll ->   *)
(* deduplicate -> relay pipeline of CrossChainEventListener, with the      *)
(* chain node and the relayer HTTP endpoint as the environment.            *)
(*                                                                         *)
(* Text is modelled as a sequence of one-character strings, bytes as a     *)
(* sequence of numbers 0..255, so that bytes.hex() and str(int) are        *)
(* computed and not assumed.                                               *)
(***************************************************************************)
EXTENDS Integers, Sequences, FiniteSets, TLC

\* ------------------------------------------------------------------ bounds
\* Highest block the modelled chain reaches.
MaxHeight == 2
\* Longest list one log query returns.
MaxEvents == 3
\* Longest list one log query returns in the runs checked for liveness.
LiveMaxEvents == 1
\* Config.START_BLOCK_OFFSET as configured for the modelled run (the
\* environment variable; the default of 100 is scaled to the modelled chain).
START_BLOCK_OFFSET == 1

\* --------------------------------------------------------------- constants
POLLING_INTERVAL_SECONDS == 15
RECONNECT_DELAY_SECONDS == 5
ERROR_BACKOFF_SECONDS == 60
max_retries == 3

VARIABLES
    pc,               \* position of the single thread of control
    config,           \* Config: the values read from the environment
    nodeUp,           \* environment: the RPC node answers
    height,           \* environment: the chain's real height
    web3,             \* BlockchainConnector.web3 is not None
    bridge_contract,  \* CrossChainEventListener.bridge_contract is not None
    from_block,       \* run(): the cursor
    to_block,         \* run(): the height the last height query returned
    events,           \* run(): the list the last log query returned
    idx,              \* run(): position of the for loop in events (1-based)
    processed,        \* StateManager._processed_transaction_ids
    payload,          \* relay_transaction_data: the JSON body
    attempt,          \* relay_transaction_data: the loop variable
    sleepFor,         \* seconds of the time.sleep in progress (0: none)
    exitReason,       \* why the process ended ("none" while it runs)
    exitCode,         \* the exit status of the process (-1 while it runs)
    \* ---- observations (history), written but never read by the program
    callPosts,        \* POSTs sent by the current relay call
    callOks,          \* of these, the ones that ended without an exception
    call2xx,          \* of these, the ones answered with a 2xx status
    lastStatus,       \* what the last POST ended in (-1: none yet)
    sent,             \* the body of the last POST of the call
    ret,              \* what the relay call returned ("none": not yet)
    delays,           \* sleeps taken inside the current relay call
    returnedTrue,     \* per transaction id: relay calls that returned True
    outcomes,         \* per event of this cycle's list: what became of it
    cyclePosts,       \* POSTs sent in this cycle
    queried,          \* a log query was issued in this cycle
    scanned,          \* ... and it returned
    reported,         \* the height reported in this cycle (-1: not yet)
    startFrom,        \* the cursor when this cycle started
    startProcessed,   \* the processed set when this cycle started
    prevScan,         \* the log query of the last cycle that issued one
    scanCount,        \* per block: log queries that returned and covered it
    initCursor        \* the cursor the loop was entered with (-1: not yet)

vars == <<pc, config, nodeUp, height, web3, bridge_contract, from_block,
          to_block, events, idx, processed, payload, attempt, sleepFor,
          exitReason, exitCode, callPosts, callOks, call2xx, lastStatus, sent,
          ret,
          delays, returnedTrue, outcomes, cyclePosts, queried, scanned,
          reported, startFrom, startProcessed, prevScan, scanCount,
          initCursor>>

progVars == <<web3, bridge_contract, from_block, to_block, events, idx,
              processed, payload, attempt>>
callObs == <<callPosts, callOks, call2xx, lastStatus, sent, ret, delays>>
idObs == <<returnedTrue>>
cycleObs == <<outcomes, cyclePosts, queried, scanned, reported, startFrom,
              startProcessed>>
scanObs == <<prevScan, scanCount>>
envVars == <<nodeUp, height, config>>
exitVars == <<exitReason, exitCode>>

\* ------------------------------------------------------- pure conversions
HexDigits == <<"0", "1", "2", "3", "4", "5", "6", "7",
               "8", "9", "a", "b", "c", "d", "e", "f">>

\* bytes.hex(): two lowercase hex digits per byte, no prefix.
RECURSIVE Hex(_)
Hex(bytes) ==
    IF bytes = <<>> THEN <<>>
    ELSE <<HexDigits[(Head(bytes) \div 16) + 1],
           HexDigits[(Head(bytes) % 16) + 1]>> \o Hex(Tail(bytes))

\* str(n) of a non-negative int: its decimal digits, most significant first.
RECURSIVE Str(_)
Str(n) ==
    IF n < 10 THEN <<HexDigits[n + 1]>>
    ELSE Str(n \div 10) \o <<HexDigits[(n % 10) + 1]>>

Max(a, b) == IF a > b THEN a ELSE b

\* ------------------------------------------------------------ environment
\* The logs the chain can hold: two well-formed ones with different ids, and
\* one the decoder left without its transactionId ("defect").
RawLogs ==
    { [transactionId |-> <<170>>, amount |-> 1000, destinationChainId |-> 5,
       recipient |-> <<"0", "x", "B", "B">>,
       transactionHash |-> <<17>>, defect |-> "none"],
      [transactionId |-> <<204>>, amount |-> 0, destinationChainId |-> 5,
       recipient |-> <<"0", "x", "B", "B">>,
       transactionHash |-> <<34>>, defect |-> "none"],
      [transactionId |-> <<170>>, amount |-> 1000, destinationChainId |-> 5,
       recipient |-> <<"0", "x", "B", "B">>,
       transactionHash |-> <<51>>, defect |-> "transactionId"] }

Blocks == 0..MaxHeight

TxIds == { Hex(l.transactionId) : l \in RawLogs }

\* What one POST can end in: an HTTP status, or 0 for a transport error
\* (timeout, connection refused: a requests.exceptions.RequestException).
Responses == {0, 102, 200, 304, 404, 503}

LogLists == UNION { [1..n -> RawLogs] : n \in 0..MaxEvents }

LiveLogLists == UNION { [1..n -> RawLogs] : n \in 0..LiveMaxEvents }

\* The entries of a log query over [from, to]: every entry carries a block
\* number of the range.
Stamp(logs, b) ==
    [i \in 1..Len(logs) |->
        [args |-> logs[i], transactionHash |-> logs[i].transactionHash,
         blockNumber |-> b]]

NoPayload == [sourceTransactionId |-> <<>>]

NoScan == [from |-> -1, to |-> -1, ok |-> FALSE]

\* ------------------------------------------------------------------ Config
\* Config.validate: both required settings are non-empty.
validate(cfg) == cfg.required_set

\* ----------------------------------------------------- BlockchainConnector
\* is_connected: a Web3 instance exists and the node answers.
is_connected == web3 /\ nodeUp

\* connect: the Web3 instance is kept only if the node answers and the
\* chain_id read of the log line does not raise; otherwise web3 = None.
connect(up, chainIdOk) == up /\ chainIdOk

\* get_contract: None when not connected or when the address is rejected.
get_contract(connected, cfg) == connected /\ cfg.address_valid

\* get_latest_block_number's value when the block_number read returns h.
get_latest_block_number(connected, h) == IF ~connected THEN 0 ELSE h

\* ------------------------------------------------------------ StateManager
\* (variant: a gate that never finds an id)
is_processed_never(tx_id) == FALSE

is_processed(tx_id) == tx_id \in processed

\* (variant: an insert that is lost)
mark_as_processed_lost(ids, tx_id) == ids

mark_as_processed(ids, tx_id) == ids \cup {tx_id}

\* ------------------------------------------------------ TransactionRelayer
BuildPayload(event_data) ==
    [sourceTransactionId |-> event_data.transactionId,
     destinationChainId |-> event_data.destinationChainId,
     recipient |-> event_data.recipient,
     amount |-> event_data.amount,
     sourceTransactionHash |-> event_data.transactionHash]

\* response.raise_for_status(): raises HTTPError for 4xx and 5xx.
raise_for_status(status) == status >= 400 /\ status < 600

\* One attempt ends in a RequestException: a transport error (0), or a
\* response raise_for_status rejects.
AttemptRaises(status) == status = 0 \/ raise_for_status(status)

\* (variant: a retry loop that does not return on success)
AfterAttempt_no_return(att, raised) ==
    IF att < max_retries - 1 THEN "sleep"
    ELSE IF raised THEN "return_false"
    ELSE "return_true"

\* (variant: a loop that gives up at the first failed attempt)
AfterAttempt_one_shot(att, raised) ==
    IF ~raised THEN "return_true" ELSE "return_false"

\* What the retry loop does after an attempt.
AfterAttempt(att, raised) ==
    IF ~raised THEN "return_true"
    ELSE IF att < max_retries - 1 THEN "sleep"
    ELSE "return_false"

\* time.sleep(2 ** attempt)
BackoffDelay(att) == 2 ^ att

\* ------------------------------------------------- CrossChainEventListener
\* (variant: the amount passed through a float, str(float(n)))
amount_str_float(n) == Str(n) \o <<".", "0">>

\* str(event['args']['amount'])
amount_str(n) == Str(n)

\* _process_event's event_data.
EventData(event) ==
    [transactionId |-> Hex(event.args.transactionId),
     destinationChainId |-> event.args.destinationChainId,
     recipient |-> event.args.recipient,
     amount |-> amount_str(event.args.amount),
     transactionHash |-> Hex(event.transactionHash),
     blockNumber |-> event.blockNumber]

\* _process_event's handler of an exception raised while an event is
\* processed: it logs and returns ("swallow"); "propagate" would re-raise
\* (the variant).
ProcessEventExcept_propagate == "propagate"

ProcessEventExcept == "swallow"

\* run(): the starting cursor.
InitialFromBlock(latest_block, offset) == Max(0, latest_block - offset)

\* (variant: an idle test that is off by one)
NoNewBlocks_off_by_one(from, to) == from > to + 1

\* (variant: no idle test at all)
NoNewBlocks_never(from, to) == FALSE

\* (variant: an idle test that also holds back the block at the cursor)
NoNewBlocks_inclusive(from, to) == from >= to

\* run(): the test of the idle branch.
NoNewBlocks(from, to) == from > to

\* (variant: the for loop left after its first event)
LoopDone_first(i, evs) == i > 1 \/ i > Len(evs)

\* run(): the for loop over events has no entry left (i is 1-based).
LoopDone(i, evs) == i > Len(evs)

\* (variant: a cursor left on the last scanned block)
NextFromBlock_same(to) == to

\* run(): the cursor after a scanned range.
NextFromBlock(to) == to + 1

\* The exit status of the process for each way main ends: every handler of
\* the __main__ block logs and falls off the end of the script.
ExitStatus(reason) == 0

\* -------------------------------------------------------------------- Init
Init ==
    /\ pc = "main"
    /\ config \in [required_set : BOOLEAN, address_valid : BOOLEAN]
    /\ nodeUp \in BOOLEAN
    /\ height \in Blocks
    /\ web3 = FALSE
    /\ bridge_contract = FALSE
    /\ from_block = 0
    /\ to_block = 0
    /\ events = <<>>
    /\ idx = 1
    /\ processed = {}
    /\ payload = NoPayload
    /\ attempt = 0
    /\ sleepFor = 0
    /\ exitReason = "none"
    /\ exitCode = -1
    /\ callPosts = 0
    /\ callOks = 0
    /\ call2xx = 0
    /\ lastStatus = -1
    /\ sent = NoPayload
    /\ ret = "none"
    /\ delays = <<>>
    /\ returnedTrue = [t \in TxIds |-> 0]
    /\ outcomes = <<>>
    /\ cyclePosts = 0
    /\ queried = FALSE
    /\ scanned = FALSE
    /\ reported = -1
    /\ startFrom = 0
    /\ startProcessed = {}
    /\ prevScan = NoScan
    /\ scanCount = [b \in Blocks |-> 0]
    /\ initCursor = -1

\* ----------------------------------------------------------------- helpers
\* No relay call has been made for the event at hand.
NoCall ==
    /\ callPosts' = 0
    /\ callOks' = 0
    /\ call2xx' = 0
    /\ lastStatus' = -1
    /\ sent' = NoPayload
    /\ ret' = "none"
    /\ delays' = <<>>

\* The process ends: main returns or one of its handlers has logged. Its
\* memory goes with it; what is left is why it ended and its exit status.
Exit(reason) ==
    /\ pc' = "exited"
    /\ exitReason' = reason
    /\ exitCode' = ExitStatus(reason)
    /\ sleepFor' = 0
    /\ web3' = FALSE
    /\ bridge_contract' = FALSE
    /\ from_block' = 0
    /\ to_block' = 0
    /\ events' = <<>>
    /\ idx' = 1
    /\ processed' = {}
    /\ payload' = NoPayload
    /\ attempt' = 0
    /\ NoCall
    /\ returnedTrue' = [t \in TxIds |-> 0]
    /\ outcomes' = <<>>
    /\ cyclePosts' = 0
    /\ queried' = FALSE
    /\ scanned' = FALSE
    /\ reported' = -1
    /\ startFrom' = 0
    /\ startProcessed' = {}
    /\ prevScan' = NoScan
    /\ scanCount' = [b \in Blocks |-> 0]
    /\ initCursor' = -1
    /\ UNCHANGED envVars

\* A new poll cycle starts: the per-cycle observations start afresh, and the
\* list of the last cycle is dropped (nothing reads it again).
NewCycle ==
    /\ outcomes' = <<>>
    /\ cyclePosts' = 0
    /\ queried' = FALSE
    /\ scanned' = FALSE
    /\ reported' = -1
    /\ startFrom' = from_block
    /\ startProcessed' = processed
    /\ events' = <<>>
    /\ idx' = 1
    /\ NoCall
    /\ prevScan' = IF queried
                   THEN [from |-> startFrom, to |-> to_block, ok |-> scanned]
                   ELSE prevScan

\* (variant: a handler that pauses like the idle branch and goes on)
LoopExcept_as_idle ==
    /\ pc' = "sleep_idle"
    /\ sleepFor' = POLLING_INTERVAL_SECONDS

\* run()'s handler of an exception of the loop body: time.sleep(60).
LoopExcept ==
    /\ pc' = "sleep_error"
    /\ sleepFor' = ERROR_BACKOFF_SECONDS

\* What became of one event: how _process_event ended, and how many of the
\* POSTs sent for it ended without an exception.
Outcome(result, oks) == [result |-> result, oks |-> oks]

\* ------------------------------------------------------------------ main
\* __main__: Config.validate(), then the listener is built.
Main ==
    /\ pc = "main"
    /\ IF validate(config)
       THEN /\ pc' = "construct"
            /\ UNCHANGED <<sleepFor, exitVars, progVars, envVars, callObs,
                           idObs, cycleObs, scanObs, initCursor>>
       ELSE Exit("config")

\* CrossChainEventListener.__init__: the connector connects, the state
\* manager starts empty.
Construct ==
    /\ pc = "construct"
    /\ \E chainIdOk \in BOOLEAN : web3' = connect(nodeUp, chainIdOk)
    /\ processed' = {}
    /\ pc' = "init"
    /\ UNCHANGED <<bridge_contract, from_block, to_block, events, idx,
                   payload, attempt, sleepFor, exitVars, envVars, callObs,
                   idObs, cycleObs, scanObs, initCursor>>

\* _initialize_contract, its connection test.
InitializeContract ==
    /\ pc = "init"
    /\ IF is_connected
       THEN /\ pc' = "bind"
            /\ UNCHANGED <<sleepFor, exitVars, progVars, envVars, callObs,
                           idObs, cycleObs, scanObs, initCursor>>
       ELSE Exit("bind")

\* _initialize_contract, the get_contract call and its result.
BindContract ==
    /\ pc = "bind"
    /\ IF get_contract(is_connected, config)
       THEN /\ bridge_contract' = TRUE
            /\ pc' = "startup"
            /\ UNCHANGED <<sleepFor, exitVars, web3, from_block, to_block,
                           events, idx, processed, payload, attempt,
                           envVars, callObs, idObs, cycleObs, scanObs,
                           initCursor>>
       ELSE Exit("bind")

\* run(): latest_block and the starting cursor. The block_number read is
\* outside the loop's try: if it raises, main's handler ends the process.
Startup ==
    /\ pc = "startup"
    /\ \/ /\ from_block' = InitialFromBlock(
                               get_latest_block_number(is_connected, height),
                               START_BLOCK_OFFSET)
          /\ initCursor' = from_block'
          /\ startFrom' = from_block'
          /\ pc' = "loop"
          /\ UNCHANGED <<sleepFor, exitVars, web3, bridge_contract,
                         to_block, events, idx, processed, payload, attempt,
                         envVars, callObs, idObs, outcomes, cyclePosts,
                         queried, scanned, reported, startProcessed,
                         scanObs>>
       \/ /\ is_connected
          /\ Exit("unhandled")

\* ------------------------------------------------------------ the poll loop
\* Top of the while loop: the connection test, and the reconnect branch.
LoopTop ==
    /\ pc = "loop"
    /\ IF ~is_connected
       THEN /\ \E chainIdOk \in BOOLEAN : web3' = connect(nodeUp, chainIdOk)
            /\ pc' = "sleep_reconnect"
            /\ sleepFor' = RECONNECT_DELAY_SECONDS
       ELSE /\ pc' = "height"
            /\ UNCHANGED <<web3, sleepFor>>
    /\ UNCHANGED <<bridge_contract, from_block, to_block, events, idx,
                   processed, payload, attempt, exitVars, envVars, callObs,
                   idObs, cycleObs, scanObs, initCursor>>

\* to_block = get_latest_block_number(), then the idle test. The read of
\* block_number can raise, which the loop's handler catches.
HeightQuery ==
    /\ pc = "height"
    /\ \/ /\ to_block' = get_latest_block_number(is_connected, height)
          /\ reported' = to_block'
          /\ IF NoNewBlocks(from_block, to_block')
             THEN /\ pc' = "sleep_idle"
                  /\ sleepFor' = POLLING_INTERVAL_SECONDS
             ELSE /\ pc' = "query"
                  /\ UNCHANGED sleepFor
       \/ /\ is_connected
          /\ LoopExcept
          /\ UNCHANGED <<to_block, reported>>
    /\ UNCHANGED <<web3, bridge_contract, from_block, events, idx, processed,
                   payload, attempt, exitVars, envVars, callObs, idObs,
                   outcomes, cyclePosts, queried, scanned, startFrom,
                   startProcessed,
                   scanObs, initCursor>>

\* create_filter(fromBlock, toBlock) and get_all_entries(): the node returns
\* the logs of the range, one of lists, or the query raises.
LogQueryOf(lists) ==
    /\ pc = "query"
    /\ queried' = TRUE
    /\ \/ /\ is_connected
          /\ \E logs \in lists : \E b \in {from_block, to_block} :
                events' = Stamp(logs, b)
          /\ idx' = 1
          /\ scanned' = TRUE
          /\ scanCount' = [b \in Blocks |->
                IF b >= from_block /\ b <= to_block
                THEN scanCount[b] + 1 ELSE scanCount[b]]
          /\ pc' = "events"
          /\ UNCHANGED sleepFor
       \/ /\ LoopExcept
          /\ UNCHANGED <<events, idx, scanCount, scanned>>
    /\ UNCHANGED <<web3, bridge_contract, from_block, to_block, processed,
                   payload, attempt, exitVars, envVars, callObs, idObs,
                   outcomes, cyclePosts, reported, startFrom, startProcessed,
                   prevScan, initCursor>>

LogQuery == LogQueryOf(LogLists)

\* The same query, over a chain that holds at most LiveMaxEvents logs a range.
LiveLogQuery == LogQueryOf(LiveLogLists)

\* An exception raised inside _process_event's try.
EventRaises ==
    IF ProcessEventExcept = "swallow"
    THEN /\ idx' = idx + 1
         /\ outcomes' = Append(outcomes, Outcome("error", 0))
         /\ UNCHANGED <<pc, sleepFor>>
    ELSE /\ LoopExcept
         /\ UNCHANGED <<idx, outcomes>>

\* One pass of the for loop up to the relay call: _process_event reads the
\* id, asks the dedup gate, builds event_data and the payload.
ProcessEvent ==
    /\ pc = "events"
    /\ ~LoopDone(idx, events)
    /\ NoCall
    /\ LET event == events[idx]
           tx_id_hex == Hex(event.args.transactionId)
       IN  IF event.args.defect = "transactionId"
           THEN /\ EventRaises
                /\ UNCHANGED <<payload, attempt>>
           ELSE IF is_processed(tx_id_hex)
           THEN /\ idx' = idx + 1
                /\ outcomes' = Append(outcomes, Outcome("skipped", 0))
                /\ UNCHANGED <<pc, sleepFor, payload, attempt>>
           ELSE /\ payload' = BuildPayload(EventData(event))
                /\ attempt' = 0
                /\ pc' = "post"
                /\ UNCHANGED <<idx, outcomes, sleepFor>>
    /\ UNCHANGED <<web3, bridge_contract, from_block, to_block, events,
                   processed, exitVars, envVars, idObs, cyclePosts, queried,
                   scanned, reported, startFrom, startProcessed, scanObs, initCursor>>

\* One attempt of relay_transaction_data: the POST, and what follows it up
\* to the next blocking call (the backoff sleep, or the return to
\* _process_event and its mark_as_processed). The locals of the call end
\* with it.
Post ==
    /\ pc = "post"
    /\ \E status \in Responses :
        LET tx == payload.sourceTransactionId
            raised == AttemptRaises(status)
            then == AfterAttempt(attempt, raised)
        IN  /\ callPosts' = callPosts + 1
            /\ callOks' = callOks + (IF raised THEN 0 ELSE 1)
            /\ call2xx' = call2xx + (IF status \in 200..299 THEN 1 ELSE 0)
            /\ lastStatus' = status
            /\ sent' = payload
            /\ cyclePosts' = cyclePosts + 1
            /\ CASE then = "return_true" ->
                    /\ returnedTrue' = [returnedTrue EXCEPT ![tx] = @ + 1]
                    /\ processed' = mark_as_processed(processed, tx)
                    /\ idx' = idx + 1
                    /\ outcomes' = Append(outcomes, Outcome("relayed", callOks'))
                    /\ pc' = "events"
                    /\ ret' = "True"
                    /\ payload' = NoPayload
                    /\ attempt' = 0
                    /\ UNCHANGED <<delays, sleepFor>>
                 [] then = "return_false" ->
                    /\ idx' = idx + 1
                    /\ outcomes' = Append(outcomes, Outcome("failed", callOks'))
                    /\ pc' = "events"
                    /\ ret' = "False"
                    /\ payload' = NoPayload
                    /\ attempt' = 0
                    /\ UNCHANGED <<delays, sleepFor, returnedTrue,
                                   processed>>
                 [] OTHER ->
                    /\ pc' = "sleep_retry"
                    /\ sleepFor' = BackoffDelay(attempt)
                    /\ delays' = Append(delays, BackoffDelay(attempt))
                    /\ UNCHANGED <<attempt, payload, idx, outcomes,
                                   returnedTrue, processed, ret>>
    /\ UNCHANGED <<web3, bridge_contract, from_block, to_block, events,
                   exitVars, envVars, queried, scanned, reported,
                   startFrom,
                   startProcessed, scanObs, initCursor>>

\* The backoff sleep of relay_transaction_data ends: the next attempt.
RetryWake ==
    /\ pc = "sleep_retry"
    /\ attempt' = attempt + 1
    /\ pc' = "post"
    /\ sleepFor' = 0
    /\ UNCHANGED <<web3, bridge_contract, from_block, to_block, events, idx,
                   processed, payload, exitVars, envVars, callObs, idObs,
                   cycleObs, scanObs, initCursor>>

\* After the for loop: from_block = to_block + 1, then the loop's closing
\* time.sleep(POLLING_INTERVAL_SECONDS).
Advance ==
    /\ pc = "events"
    /\ LoopDone(idx, events)
    /\ from_block' = NextFromBlock(to_block)
    /\ pc' = "sleep_poll"
    /\ sleepFor' = POLLING_INTERVAL_SECONDS
    /\ NoCall
    /\ UNCHANGED <<web3, bridge_contract, to_block, events, idx, processed,
                   payload, attempt, exitVars, envVars, idObs, cycleObs,
                   scanObs, initCursor>>

\* A sleep of the loop ends. After the error backoff the loop's closing sleep
\* follows; after any other sleep the next cycle starts.
Wake ==
    /\ pc \in {"sleep_reconnect", "sleep_idle", "sleep_error", "sleep_poll"}
    /\ IF pc = "sleep_error"
       THEN /\ pc' = "sleep_poll"
            /\ sleepFor' = POLLING_INTERVAL_SECONDS
            /\ UNCHANGED <<events, idx, callObs, cycleObs, prevScan>>
       ELSE /\ pc' = "loop"
            /\ sleepFor' = 0
            /\ NewCycle
    /\ UNCHANGED <<web3, bridge_contract, from_block, to_block, processed,
                   payload, attempt, exitVars, envVars, idObs, scanCount,
                   initCursor>>

\* KeyboardInterrupt: raised wherever the thread is, caught by main.
Interrupt ==
    /\ pc # "exited"
    /\ Exit("interrupt")

\* ------------------------------------------------------------ environment
\* The node goes away or comes back. The program sees the node only where it
\* calls it, so a change is taken right before such a call.
NodeFlip ==
    /\ pc \in {"construct", "init", "bind", "startup", "loop", "height",
               "query"}
    /\ nodeUp' = ~nodeUp
    /\ UNCHANGED <<pc, sleepFor, progVars, height, config, exitVars, callObs,
                   idObs, cycleObs, scanObs, initCursor>>

\* The chain grows by one block, seen at the next read of the height.
ChainGrows ==
    /\ pc \in {"startup", "height"}
    /\ height < MaxHeight
    /\ height' = height + 1
    /\ UNCHANGED <<pc, sleepFor, progVars, nodeUp, config, exitVars, callObs,
                   idObs, cycleObs, scanObs, initCursor>>

Next ==
    \/ Main
    \/ Construct
    \/ InitializeContract
    \/ BindContract
    \/ Startup
    \/ LoopTop
    \/ HeightQuery
    \/ LogQuery
    \/ ProcessEvent
    \/ Post
    \/ RetryWake
    \/ Advance
    \/ Wake
    \/ Interrupt
    \/ NodeFlip
    \/ ChainGrows

Spec == Init /\ [][Next]_vars

\* The steps of the program itself, as opposed to those of its environment
\* (the node, the chain, the operator's interrupt).
LiveProgramStep ==
    \/ Main
    \/ Construct
    \/ InitializeContract
    \/ BindContract
    \/ Startup
    \/ LoopTop
    \/ HeightQuery
    \/ LiveLogQuery
    \/ ProcessEvent
    \/ Post
    \/ RetryWake
    \/ Advance
    \/ Wake

LiveNext ==
    \/ LiveProgramStep
    \/ Interrupt
    \/ NodeFlip
    \/ ChainGrows

\* The single thread keeps running: every sleep ends, every POST returns or
\* times out (timeout=10), every call to the node returns or raises.
LiveSpec == Init /\ [][LiveNext]_vars /\ WF_vars(LiveProgramStep)

TypeOK ==
    /\ pc \in {"main", "construct", "init", "bind", "startup", "loop",
               "height", "query", "events", "post", "sleep_retry",
               "sleep_reconnect", "sleep_idle", "sleep_error", "sleep_poll",
               "exited"}
    /\ from_block \in 0..(MaxHeight + 1)
    /\ to_block \in Blocks
    /\ processed \subseteq TxIds
    /\ attempt \in 0..(max_retries - 1)

\* ------------------------------------------------------------------ claims
Handled == 1..Len(outcomes)

\* The transaction id of the i-th entry of the fetched list, as hex text.
IdOf(i) == Hex(events[i].args.transactionId)

WellFormed(i) == events[i].args.defect = "none"

Is2xx(status) == status >= 200 /\ status <= 299

\* The number a text of decimal digits stands for, -1 if it is no such text.
RECURSIVE DecimalValue(_)
DecimalValue(text) ==
    IF text = <<>> THEN -1
    ELSE LET last == text[Len(text)]
             digit == IF \E d \in 0..9 : HexDigits[d + 1] = last
                      THEN CHOOSE d \in 0..9 : HexDigits[d + 1] = last
                      ELSE -1
             front == SubSeq(text, 1, Len(text) - 1)
         IN  IF digit = -1 THEN -1
             ELSE IF front = <<>> THEN digit
             ELSE IF DecimalValue(front) = -1 THEN -1
             ELSE 10 * DecimalValue(front) + digit

\* C1 as claimed: every well-formed event with a fresh id that a log query
\* returned ends with exactly one successful relay (never zero).
C1_ExactlyOnce ==
    \A i \in Handled :
        outcomes[i].result \notin {"skipped", "error"} =>
            outcomes[i].result = "relayed" /\ outcomes[i].oks = 1

\* C1 as amended: every event of the fetched list is handled once, in order;
\* none is delivered more than once, and it is delivered exactly once when
\* its relay call returned True and not at all when it was skipped as a
\* duplicate, failed normalization or had all its attempts fail.
C1_AtMostOnce ==
    /\ Len(outcomes) = idx - 1
    /\ Len(outcomes) <= Len(events)
    /\ \A i \in Handled :
        /\ outcomes[i].oks <= 1
        /\ outcomes[i].oks = 1 <=> outcomes[i].result = "relayed"
        /\ outcomes[i].result \in {"relayed", "failed", "skipped", "error"}

\* A cycle in which one event was delivered and another was dropped after
\* its attempts failed.
C1_Witness ==
    \E i, j \in Handled :
        outcomes[i].result = "failed" /\ outcomes[j].result = "relayed"

\* C2: a transaction id is in the processed set exactly when a relay call
\* for it has returned True.
C2_ProcessedIffRelayed ==
    \A t \in TxIds : t \in processed <=> returnedTrue[t] >= 1

\* One id is processed after its relay, another is not after its failure.
C2_Witness ==
    /\ processed # {}
    /\ \E i \in Handled :
        outcomes[i].result = "failed" /\ IdOf(i) \notin processed

\* C3: an event whose id is already processed causes no relay call and no
\* POST: no call is ever in progress for a processed id, an event whose id
\* was processed before the cycle is skipped, and a cycle that presents only
\* such events sends nothing.
C3_NoRelayOfProcessed ==
    /\ pc \in {"post", "sleep_retry"} =>
            payload.sourceTransactionId \notin processed
    /\ \A i \in Handled :
            (WellFormed(i) /\ IdOf(i) \in startProcessed)
            => outcomes[i] = Outcome("skipped", 0)
    /\ (\A i \in 1..Len(events) :
            WellFormed(i) /\ IdOf(i) \in startProcessed)
            => cyclePosts = 0

\* A later cycle presented an event relayed in an earlier one, and ended
\* without a POST.
C3_Witness ==
    /\ pc = "sleep_poll"
    /\ Len(events) >= 1
    /\ Len(outcomes) = Len(events)
    /\ \A i \in Handled : WellFormed(i) /\ IdOf(i) \in startProcessed
    /\ cyclePosts = 0

\* C4 as claimed: of two consecutive cycles that issue a log query, the
\* second one's from is the first one's to + 1.
C4_NextFromIsToPlusOne ==
    (queried /\ prevScan # NoScan) => startFrom = prevScan.to + 1

\* C4 as amended: the second from is the first to + 1 when the first query
\* returned, and the first from again when it raised; no block is covered by
\* two queries that returned, and none from the initial cursor up to the
\* cursor is left out.
C4_ContiguousRanges ==
    /\ (queried /\ prevScan # NoScan) =>
            startFrom = IF prevScan.ok THEN prevScan.to + 1 ELSE prevScan.from
    /\ \A b \in Blocks : scanCount[b] <= 1
    /\ \A b \in Blocks :
            (initCursor # -1 /\ b >= initCursor /\ b < from_block)
            => scanCount[b] = 1

\* Two consecutive cycles whose log queries both returned.
C4_Witness ==
    /\ scanned
    /\ prevScan # NoScan
    /\ prevScan.ok
    /\ startFrom = prevScan.to + 1
    /\ startFrom > initCursor

\* C5: a cycle whose reported height is below the cursor issues no log
\* query, handles no event, sends no POST, leaves the cursor and the
\* processed set alone and sleeps the polling interval.
C5_IdleCycle ==
    (reported # -1 /\ reported < startFrom) =>
        /\ pc \in {"sleep_idle", "exited"}
        /\ pc = "sleep_idle" => sleepFor = POLLING_INTERVAL_SECONDS
        /\ ~queried
        /\ outcomes = <<>>
        /\ cyclePosts = 0
        /\ from_block = startFrom
        /\ processed = startProcessed

\* An idle cycle, asleep.
C5_Witness ==
    /\ pc = "sleep_idle"
    /\ reported # -1
    /\ reported < startFrom
    /\ processed # {}

\* C6 as claimed, with success as the spec defines it (a 2xx answer): a
\* relay call that has returned sent as many POSTs as it took to get the
\* first 2xx, or exactly 3 when there was none; it slept 1 s, then 2 s,
\* between attempts only, and it returned False when no attempt succeeded.
C6_RetryBound ==
    ret # "none" =>
        /\ callPosts \in 1..max_retries
        /\ delays = [k \in 1..(callPosts - 1) |-> 2 ^ (k - 1)]
        /\ call2xx >= 1 => (call2xx = 1 /\ Is2xx(lastStatus))
        /\ call2xx = 0 =>
               (callPosts = max_retries /\ delays = <<1, 2>> /\ ret = "False")

\* C7 as claimed: True only after a 2xx answer, False once all 3 attempts
\* have failed.
C7_TrueOnly2xx ==
    /\ ret = "True" => (Is2xx(lastStatus) /\ callPosts <= max_retries)
    /\ ret = "False" => (call2xx = 0 /\ callPosts = max_retries)

\* C8: a normalization failure is confined to its event. A cycle whose log
\* query returned never enters the error backoff; at its end every event of
\* the list has been handled, each well-formed one with a fresh id got its
\* relay call, and the cursor is to + 1.
C8_NormalizationIsolated ==
    scanned =>
        /\ pc # "sleep_error"
        /\ pc = "sleep_poll" =>
            /\ Len(outcomes) = Len(events)
            /\ from_block = to_block + 1
            /\ \A i \in Handled :
                LET gated ==
                        \/ IdOf(i) \in startProcessed
                        \/ \E k \in 1..(i - 1) :
                              /\ WellFormed(k)
                              /\ IdOf(k) = IdOf(i)
                              /\ outcomes[k].result = "relayed"
                IN  outcomes[i].result \in
                        IF ~WellFormed(i) THEN {"error"}
                        ELSE IF gated THEN {"skipped"}
                        ELSE {"relayed", "failed"}

\* The second of three events failed normalization, the first and the third
\* were relayed, and the cursor moved on.
C8_Witness ==
    /\ pc = "sleep_poll"
    /\ scanned
    /\ Len(outcomes) = 3
    /\ outcomes[1].result = "relayed"
    /\ outcomes[2].result = "error"
    /\ outcomes[3].result = "relayed"
    /\ from_block = to_block + 1

\* C9: when every POST of a relay call was answered 2xx there was exactly
\* one, its body carries the event's amount as decimal text next to the four
\* other fields, the call returned True and the id is in the processed set.
C9_SuccessfulRelay ==
    (callPosts >= 1 /\ call2xx = callPosts) =>
        /\ callPosts = 1
        /\ ret = "True"
        /\ idx >= 2
        /\ LET args == events[idx - 1].args
           IN  /\ DOMAIN sent =
                     {"sourceTransactionId", "destinationChainId",
                      "recipient", "amount", "sourceTransactionHash"}
               /\ DecimalValue(sent.amount) = args.amount
               /\ args.amount = 1000 => sent.amount = <<"1", "0", "0", "0">>
               /\ args.transactionId = <<170>> =>
                      sent.sourceTransactionId = <<"a", "a">>
               /\ sent.destinationChainId = args.destinationChainId
               /\ sent.recipient = args.recipient
               /\ sent.sourceTransactionId \in processed
               /\ outcomes[idx - 1] = Outcome("relayed", 1)

\* The event of the spec's example, relayed at the first attempt.
C9_Witness ==
    /\ ret = "True"
    /\ callPosts = 1
    /\ lastStatus = 200
    /\ sent.amount = <<"1", "0", "0", "0">>
    /\ sent.destinationChainId = 5
    /\ sent.sourceTransactionId = <<"a", "a">>
    /\ <<"a", "a">> \in processed

\* C10 as claimed: the process ends only on a configuration error, a
\* contract-binding failure or an external interrupt.
C10_OnlyThreeExits ==
    pc = "exited" => exitReason \in {"config", "bind", "interrupt"}

\* C11 as claimed: the exit status is non-zero when the process ends on a
\* configuration error or because the bridge contract could not be bound,
\* and zero only when it ends on an external interrupt.
C11_ExitStatus ==
    pc = "exited" =>
        /\ exitReason \in {"config", "bind"} => exitCode # 0
        /\ exitCode = 0 => exitReason = "interrupt"

\* C12: while the process runs the cursor from_block never decreases,
\* whatever the cycle was (query error, reconnect, idle, a reported height
\* below an earlier one), and at the end of a cycle whose log query over
\* [from, to] returned it is strictly greater than to.
C12_CursorMonotone ==
    /\ []((pc = "sleep_poll" /\ scanned) =>
            (from_block > to_block /\ from_block > startFrom))
    /\ [][pc' # "exited" => from_block' >= from_block]_vars

\* A cycle that was reported a height below the range an earlier cycle
\* scanned: the cursor is still past that range.
C12_Witness ==
    /\ prevScan # NoScan
    /\ prevScan.ok
    /\ reported # -1
    /\ reported < prevScan.to
    /\ from_block > prevScan.to

\* C13 as claimed: the cursor run() enters the loop with is
\* max(0, latest - START_BLOCK_OFFSET) for the chain's real height latest at
\* that moment: never negative, latest - offset when latest >= offset, and 0
\* only when the height is at most the offset.
C13_StartupCursor ==
    [][(pc = "startup" /\ pc' = "loop") =>
           /\ from_block' = Max(0, height - START_BLOCK_OFFSET)
           /\ from_block' >= 0
           /\ from_block' = 0 => height <= START_BLOCK_OFFSET]_vars

\* The cycle is asleep after its height query or its log query raised.
QueryRaised ==
    /\ pc \in {"sleep_idle", "sleep_error", "sleep_poll"}
    /\ ~scanned
    /\ reported = -1 \/ queried

\* C14: a cycle whose height query or log query raised is in the error
\* backoff (the 60 s pause, then the closing sleep) with the cursor and the
\* processed set as they were when the cycle started, no event handled and
\* no POST sent; the next log query starts from the same from_block, and no
\* block between the initial cursor and the cursor was left out.
C14_QueryFailureFrame ==
    /\ QueryRaised =>
        /\ pc \in {"sleep_error", "sleep_poll"}
        /\ pc = "sleep_error" => sleepFor = ERROR_BACKOFF_SECONDS
        /\ from_block = startFrom
        /\ processed = startProcessed
        /\ cyclePosts = 0
        /\ outcomes = <<>>
        /\ \A b \in Blocks :
              (b >= initCursor /\ b < from_block) => scanCount[b] = 1
    /\ (queried /\ prevScan # NoScan /\ ~prevScan.ok) =>
            startFrom = prevScan.from

\* The log query of a cycle raised after earlier cycles had moved the cursor
\* and relayed an event, and the pause is the 60 s one.
C14_Witness ==
    /\ pc = "sleep_error"
    /\ queried
    /\ sleepFor = ERROR_BACKOFF_SECONDS
    /\ processed # {}
    /\ from_block > initCursor
    /\ prevScan # NoScan
    /\ ~prevScan.ok

\* An event of this cycle's list raised inside _process_event.
NormalizationCrashed == \E i \in Handled : outcomes[i].result = "error"

\* C15 as claimed: a normalization crash on an event is escalated like a
\* chain query failure: the cycle goes to the 60 s error backoff with the
\* cursor where it was before the cycle.
C15_AnyErrorBacksOff ==
    NormalizationCrashed =>
        /\ pc \in {"sleep_error", "sleep_poll"}
        /\ pc = "sleep_error" => sleepFor = ERROR_BACKOFF_SECONDS
        /\ from_block = startFrom

\* C15 as amended: the error backoff is entered only from a chain query that
\* raised, for 60 s and with the cursor kept; a normalization crash is dealt
\* with inside _process_event, the cycle goes on with the next event and
\* ends in the polling sleep with the cursor at to + 1.
C15_OnlyQueryFailuresBackOff ==
    /\ pc = "sleep_error" =>
        /\ sleepFor = ERROR_BACKOFF_SECONDS
        /\ ~scanned
        /\ reported = -1 \/ queried
        /\ ~NormalizationCrashed
        /\ from_block = startFrom
    /\ NormalizationCrashed =>
        /\ scanned
        /\ pc \in {"events", "post", "sleep_retry", "sleep_poll"}
        /\ pc = "sleep_poll" =>
            /\ sleepFor = POLLING_INTERVAL_SECONDS
            /\ from_block = to_block + 1
            /\ from_block > startFrom

\* After a cycle whose log query raised, the range was queried again and an
\* event of it crashed in normalization: the cursor moved on all the same.
C15_Witness ==
    /\ pc = "sleep_poll"
    /\ NormalizationCrashed
    /\ prevScan # NoScan
    /\ ~prevScan.ok
    /\ from_block = to_block + 1
    /\ startFrom = prevScan.from

\* The events of this cycle's list whose relay call returned False.
Dropped == { i \in Handled : outcomes[i].result = "failed" }

\* C16: an event whose relay call returned False is not marked processed by
\* that call (its id is in the set only if a later event with the same id
\* was relayed), no second call is made for it in the cycle, its block lies
\* in the range scanned once by this cycle, and the cycle ends with the
\* cursor at to + 1, past that block. A block that has been scanned is never
\* part of a later scanned range and the cursor never comes back to it, so
\* the event is never fetched, and never POSTed, again.
C16_DroppedForGood ==
    /\ [](\A i \in Dropped :
            /\ IdOf(i) \in processed =>
                  \E k \in Handled :
                      /\ k > i
                      /\ IdOf(k) = IdOf(i)
                      /\ outcomes[k].result = "relayed"
            /\ idx > i
            /\ pc \in {"events", "post", "sleep_retry", "sleep_poll"}
            /\ events[i].blockNumber >= startFrom
            /\ events[i].blockNumber <= to_block
            /\ scanCount[events[i].blockNumber] = 1
            /\ pc = "sleep_poll" =>
                  /\ from_block = to_block + 1
                  /\ events[i].blockNumber < from_block)
    /\ [](\A i \in 1..Len(events) :
            /\ events[i].blockNumber >= startFrom
            /\ events[i].blockNumber <= to_block)
    /\ [][pc' # "exited" =>
            \A b \in Blocks :
                /\ scanCount[b] >= 1 => scanCount'[b] = scanCount[b]
                /\ b < from_block => b < from_block']_vars

\* A cycle ended with an event dropped: its id is not processed and the
\* cursor is past its block.
C16_Witness ==
    /\ pc = "sleep_poll"
    /\ \E i \in Dropped :
        /\ IdOf(i) \notin processed
        /\ events[i].blockNumber = to_block
        /\ from_block = events[i].blockNumber + 1
        /\ scanCount[events[i].blockNumber] = 1

\* C17: the events of a cycle are handled one at a time in the order of the
\* list. At every moment the handled events are the first idx - 1 of the
\* list; a relay call in progress is for the next one, with every earlier
\* event finished (its relay, if it succeeded, already in the processed set)
\* and the cursor not yet moved; the cursor is moved only when the whole
\* list has been handled. From step to step the handled prefix grows by
\* exactly one event, the next of the list, or starts afresh with the cycle.
C17_InOrderOneAtATime ==
    /\ [](/\ Len(outcomes) = idx - 1
          /\ Len(outcomes) <= Len(events)
          /\ \A i \in Handled :
                (outcomes[i].result = "relayed" /\ WellFormed(i))
                => IdOf(i) \in processed
          /\ pc \in {"post", "sleep_retry"} =>
                /\ scanned
                /\ idx <= Len(events)
                /\ payload.sourceTransactionId = IdOf(idx)
                /\ payload.sourceTransactionHash =
                       Hex(events[idx].transactionHash)
                /\ from_block = startFrom
          /\ (scanned /\ pc = "events") => from_block = startFrom
          /\ (scanned /\ from_block # startFrom) =>
                /\ pc = "sleep_poll"
                /\ Len(outcomes) = Len(events))
    /\ [][pc' # "exited" =>
            \/ outcomes' = outcomes /\ idx' = idx
            \/ outcomes' = <<>> /\ idx' = 1
            \/ /\ idx' = idx + 1
               /\ idx <= Len(events)
               /\ events' = events
               /\ Len(outcomes') = Len(outcomes) + 1
               /\ SubSeq(outcomes', 1, Len(outcomes)) = outcomes]_vars

\* The first event of the list has been relayed and marked, the second is
\* at its second POST, a third waits, and the cursor has not moved.
C17_Witness ==
    /\ pc = "post"
    /\ Len(events) = 3
    /\ idx = 2
    /\ outcomes[1].result = "relayed"
    /\ IdOf(1) \in processed
    /\ IdOf(1) \notin startProcessed
    /\ callPosts = 1
    /\ from_block = startFrom

\* C18: within one process lifetime at most one relay call returns True for
\* any transaction id, whatever the cycles, the fetched logs (several with
\* the same id in one list or in several) and the relay outcomes were.
C18_AtMostOneTrue ==
    \A t \in TxIds : returnedTrue[t] <= 1

\* Three logs with the same id in one list: the first was dropped, the
\* second relayed, the third skipped; while another id had been relayed in an
\* earlier cycle.
C18_Witness ==
    /\ Len(outcomes) = 3
    /\ \A i \in Handled : WellFormed(i) /\ IdOf(i) = IdOf(1)
    /\ outcomes[1].result = "failed"
    /\ outcomes[2].result = "relayed"
    /\ outcomes[3].result = "skipped"
    /\ returnedTrue[IdOf(1)] = 1
    /\ \E t \in startProcessed : t # IdOf(1) /\ returnedTrue[t] = 1

\* C19 as claimed: after an event was dropped, every later log of the list
\* with the same id passes the dedup gate and gets a relay call.
C19_AnyLaterLogRelayed ==
    \A i \in Dropped : \A j \in Handled :
        (j > i /\ WellFormed(j) /\ IdOf(j) = IdOf(i))
        => outcomes[j].result \in {"relayed", "failed"}

\* C19 as amended: a dropped event does not stop the cycle (no error
\* backoff, every event of the list handled), and a later log with the same
\* id is skipped exactly when a relay call for that id returned True in
\* between; otherwise it passes the gate. Every relay call starts with its
\* own budget: it returns False only after 3 POSTs of its own. The gate
\* reads nothing but the processed set, which changes only when a call
\* returns True, so the same holds for the logs of later cycles.
C19_FailureDoesNotPoison ==
    /\ [](Dropped # {} =>
            /\ scanned
            /\ pc \in {"events", "post", "sleep_retry", "sleep_poll"}
            /\ pc = "sleep_poll" => Len(outcomes) = Len(events))
    /\ [](\A i \in Dropped : \A j \in Handled :
            (j > i /\ WellFormed(j) /\ IdOf(j) = IdOf(i)) =>
                LET relayedBetween ==
                        \E k \in (i + 1)..(j - 1) :
                            /\ WellFormed(k)
                            /\ IdOf(k) = IdOf(i)
                            /\ outcomes[k].result = "relayed"
                IN  outcomes[j].result \in
                        IF relayedBetween THEN {"skipped"}
                        ELSE {"relayed", "failed"})
    /\ [](/\ pc = "post" => (attempt = callPosts /\ attempt < max_retries)
          /\ pc = "sleep_retry" =>
                (attempt = callPosts - 1 /\ attempt < max_retries - 1)
          /\ ret = "False" => (callPosts = max_retries /\ callOks = 0))
    /\ [][pc' # "exited" =>
            /\ processed' # processed =>
                  /\ ret' = "True"
                  /\ processed' = processed \cup {sent'.sourceTransactionId}
            /\ (pc = "events" /\ pc' = "post") =>
                  /\ IdOf(idx) \notin processed
                  /\ attempt' = 0
                  /\ callPosts' = 0
            /\ (pc = "events" /\ idx' = idx + 1 /\ WellFormed(idx)) =>
                  IdOf(idx) \in processed]_vars

\* The first event of the list was dropped; the second carries the same id
\* and is in a relay call of its own, two POSTs failed and a third to come.
C19_Witness ==
    /\ pc = "sleep_retry"
    /\ idx = 2
    /\ outcomes[1].result = "failed"
    /\ WellFormed(2)
    /\ IdOf(2) = IdOf(1)
    /\ callPosts = 2
    /\ attempt = 1

\* From some point on the connection test succeeds, no query raises and the
\* process is not ended.
EventuallyHealthy ==
    <>[](is_connected /\ pc \notin {"sleep_error", "exited"})

\* C20: if the run is eventually healthy, every block from the initial
\* cursor up to a reported height is eventually covered by a log query that
\* returned, and every event of a returned list is eventually handled by
\* _process_event, in the cycle that fetched it.
C20_EveryBlockScanned ==
    EventuallyHealthy =>
        /\ \A b \in Blocks :
              (initCursor # -1 /\ b >= initCursor /\ reported >= b)
              ~> (scanCount[b] >= 1)
        /\ (scanned /\ pc = "events" /\ idx = 1)
              ~> (scanned /\ pc = "sleep_poll"
                          /\ Len(outcomes) = Len(events))

\* After a cycle whose log query raised (the range was queried again),
\* every block from the initial cursor to the top of the chain has been
\* scanned and every event of the last list handled.
C20_Witness ==
    /\ pc = "sleep_poll"
    /\ height = MaxHeight
    /\ initCursor = 0
    /\ \A b \in Blocks : scanCount[b] = 1
    /\ Len(events) >= 1
    /\ Len(outcomes) = Len(events)
    /\ prevScan # NoScan
    /\ ~prevScan.ok

====
